---- MODULE Spec2Model ----
(***************************************************************************)
(* Sentiment classification and recommendation service (model.py, app.py,  *)
(* api/index.py).  Text is a sequence of one-character strings; a          *)
(* probability p is the integer numerator of p / One.                      *)
(***************************************************************************)
EXTENDS Integers, Sequences, FiniteSets, TLC

\* ------------------------------------------------------------------ bounds
\* longest raw text drawn as an input
MaxTextLen == 4
\* probabilities are multiples of 1 / (2 * ProbHalf)
ProbHalf == 2
\* most rows the review table holds
MaxRows == 3
\* longest candidate list the recommender holds for a user
MaxCand == 3
\* largest recommendation count asked of the engine
MaxN == 3
\* request threads of the serving process
NumThreads == 2

One == 2 * ProbHalf
Half == ProbHalf

\* ------------------------------------------------------- program constants
RECOMMENDATION_TOP_N == 5
CF_CANDIDATES == 50

\* Python's None; a value v that may be None is held as <<v>>
None == <<>>
\* a value that is not a str (None, float NaN of a DataFrame cell)
NaN == <<"NaN">>

Min(a, b) == IF a < b THEN a ELSE b
Max(a, b) == IF a > b THEN a ELSE b

\* ------------------------------------------------------------------- text
\* The characters texts are drawn from: letters, an upper-case letter,
\* whitespace, punctuation and the at sign.
Alphabet == {"w", "a", "s", "W", " ", "!", "@"}
LowerAlnum == {"w", "a", "s", "h", "t", "p", "e", "b"}

IsSpace(c) == c = " "

\* str.lower() on one character
LowerChar(c) == IF c = "W" THEN "w" ELSE c

lower(s) == [i \in 1..Len(s) |-> LowerChar(s[i])]

\* str.strip(): leading and trailing whitespace removed
RECURSIVE lstrip(_)
lstrip(s) == IF s # <<>> /\ IsSpace(Head(s)) THEN lstrip(Tail(s)) ELSE s

RECURSIVE rstrip(_)
rstrip(s) ==
    IF s # <<>> /\ IsSpace(s[Len(s)]) THEN rstrip(SubSeq(s, 1, Len(s) - 1)) ELSE s

strip(s) == rstrip(lstrip(s))

\* first index at or after i that holds whitespace, Len(s) + 1 if none:
\* where a greedy \S+ that starts at i stops
RECURSIVE RunEnd(_, _)
RunEnd(s, i) == IF i > Len(s) \/ IsSpace(s[i]) THEN i ELSE RunEnd(s, i + 1)

HasPrefix(s, i, p) ==
    /\ i + Len(p) - 1 <= Len(s)
    /\ \A k \in 1..Len(p) : s[i + k - 1] = p[k]

\* the literal heads of  http\S+|www\S+|https\S+
UrlHeads == {<<"h", "t", "t", "p">>, <<"w", "w", "w">>, <<"h", "t", "t", "p", "s">>}

\* the pattern matches at i: a head, then at least one non-space character
UrlAt(s, i) ==
    \E p \in UrlHeads :
        /\ HasPrefix(s, i, p)
        /\ i + Len(p) <= Len(s)
        /\ ~IsSpace(s[i + Len(p)])

\* re.sub(r'http\S+|www\S+|https\S+', '', text): leftmost match, greedy to the
\* end of the run of non-space characters, then on from the end of the match
RECURSIVE SubUrlFrom(_, _)
SubUrlFrom(s, i) ==
    IF i > Len(s) THEN <<>>
    ELSE IF UrlAt(s, i) THEN SubUrlFrom(s, RunEnd(s, i))
    ELSE <<s[i]>> \o SubUrlFrom(s, i + 1)

remove_urls(s) == SubUrlFrom(s, 1)

\* \S+@\S+ matches at i: a non-space at i, an at sign later in the same run
\* with at least one non-space character after it
EmailAt(s, i) ==
    /\ ~IsSpace(s[i])
    /\ \E j \in (i + 1)..(RunEnd(s, i) - 2) : s[j] = "@"

\* re.sub(r'\S+@\S+', '', text)
RECURSIVE SubEmailFrom(_, _)
SubEmailFrom(s, i) ==
    IF i > Len(s) THEN <<>>
    ELSE IF EmailAt(s, i) THEN SubEmailFrom(s, RunEnd(s, i))
    ELSE <<s[i]>> \o SubEmailFrom(s, i + 1)

remove_emails(s) == SubEmailFrom(s, 1)

KeepChar(c) == c \in LowerAlnum \/ IsSpace(c)

\* re.sub(r'[^a-z0-9\s]', '', text)
remove_special(s) == SelectSeq(s, KeepChar)

\* str.split(): the maximal runs of non-space characters, in order
RECURSIVE SplitFrom(_, _)
SplitFrom(s, i) ==
    IF i > Len(s) THEN <<>>
    ELSE IF IsSpace(s[i]) THEN SplitFrom(s, i + 1)
    ELSE <<SubSeq(s, i, RunEnd(s, i) - 1)>> \o SplitFrom(s, RunEnd(s, i))

split(s) == SplitFrom(s, 1)

\* ' '.join(tokens)
RECURSIVE join(_)
join(tokens) ==
    IF tokens = <<>> THEN <<>>
    ELSE IF Len(tokens) = 1 THEN tokens[1]
    ELSE tokens[1] \o <<" ">> \o join(Tail(tokens))

\* The words of FALLBACK_STOPWORDS that can be written in the alphabet.
FALLBACK_STOPWORDS == {<<"a">>, <<"a", "s">>, <<"w", "a", "s">>}

\* The words of nltk's English stopword list that can be written in the
\* alphabet.
NLTK_STOPWORDS == {<<"a">>, <<"s">>, <<"a", "s">>, <<"w", "a", "s">>}

\* Noun lemmas of WordNet that can be written in the alphabet (a sample).
WordNetNouns ==
    {<<"a">>, <<"s">>, <<"w">>, <<"a", "s">>, <<"a", "a">>, <<"w", "a">>,
     <<"s", "a">>, <<"a", "s", "s">>, <<"s", "a", "w">>}

\* wn._morphy's detachment rule for nouns that applies in the alphabet:
\* a final s is dropped
Detach(forms) ==
    {SubSeq(f, 1, Len(f) - 1) : f \in {g \in forms : g # <<>> /\ g[Len(g)] = "s"}}

RECURSIVE MorphyLoop(_)
MorphyLoop(forms) ==
    IF forms = {} THEN {}
    ELSE LET next == Detach(forms)
             found == next \cap WordNetNouns
         IN  IF found # {} THEN found ELSE MorphyLoop(next)

\* wn._morphy(word, 'n'): the word itself and its one-step detachments that
\* are lemmas; failing that, repeated detachment until one is
morphy(word) ==
    LET first == ({word} \cup Detach({word})) \cap WordNetNouns
    IN  IF first # {} THEN first ELSE MorphyLoop(Detach({word}))

\* WordNetLemmatizer.lemmatize(t): the shortest lemma found, else t itself
lemmatize(t) ==
    LET lemmas == morphy(t)
    IN  IF lemmas = {} THEN t
        ELSE CHOOSE l \in lemmas : \A m \in lemmas : Len(l) <= Len(m)

\* The language resources of the process: nltk imported (NLTK_AVAILABLE), its
\* stopword corpus readable, its WordNet corpus readable.
NltkEnvs ==
    {e \in [available : BOOLEAN, stopwords : BOOLEAN, wordnet : BOOLEAN] :
        ~e.available => (~e.stopwords /\ ~e.wordnet)}

\* nltk could not be imported: NLTK_AVAILABLE stays False
NoNltk == [available |-> FALSE, stopwords |-> FALSE, wordnet |-> FALSE]

stop_words(env) ==
    IF env.available /\ env.stopwords THEN NLTK_STOPWORDS ELSE FALLBACK_STOPWORDS

KeepToken(env, t) == t \notin stop_words(env) /\ Len(t) > 2

RECURSIVE FilterTokens(_, _)
FilterTokens(env, tokens) ==
    IF tokens = <<>> THEN <<>>
    ELSE (IF KeepToken(env, Head(tokens)) THEN <<Head(tokens)>> ELSE <<>>)
         \o FilterTokens(env, Tail(tokens))

LemmatizeTokens(env, tokens) ==
    IF env.available /\ env.wordnet
    THEN [i \in 1..Len(tokens) |-> lemmatize(tokens[i])]
    ELSE tokens

\* preprocess_text(text)
preprocess_text(text, env) ==
    IF text = NaN \/ Len(strip(text)) = 0 THEN <<>>
    ELSE LET lowered == lower(text)
             nourl == remove_urls(lowered)
             nomail == remove_emails(nourl)
             clean == remove_special(nomail)
             tokens == split(clean)
             kept == FilterTokens(env, tokens)
         IN  join(LemmatizeTokens(env, kept))

\* -------------------------------------------------------------- artifacts
\* The four pickled artifacts as the core uses them:
\*   tfidf_vectorizer  its fitted vocabulary (a set of tokens);
\*   sentiment_model   a linear classifier [intercept, coef] over that
\*                     vocabulary;
\*   recommender       [user_index, recs]: the known users and each user's
\*                     ranked candidate list;
\*   reviews_df        the review table, a sequence of rows
\*                     [name, reviews_text].
REQUIRED_FILES ==
    <<"tfidf_vectorizer.pkl", "sentiment_model.pkl", "user_based_cf.pkl",
      "master_reviews.pkl">>

Files == {REQUIRED_FILES[i] : i \in 1..Len(REQUIRED_FILES)}

\* a file that does not exist; an existing file is held as <<content>>
Absent == <<>>

\* TfidfVectorizer.transform([processed]): the occurrences of vocabulary
\* terms among the text's tokens of two or more characters
transform(vocabulary, processed) ==
    SelectSeq(split(processed), LAMBDA t : Len(t) >= 2 /\ t \in vocabulary)

RECURSIVE decision_function(_, _)
decision_function(clf, features) ==
    IF features = <<>> THEN clf.intercept
    ELSE clf.coef[Head(features)] + decision_function(clf, Tail(features))

\* sentiment_model.predict(features)[0]: class 1 on a positive decision value
predict(clf, features) == IF decision_function(clf, features) > 0 THEN 1 ELSE 0

\* sentiment_model.predict_proba(features)[0, 1]: rises with the decision
\* value and saturates at 0 and at 1
predict_proba(clf, features) ==
    Max(0, Min(One, Half + decision_function(clf, features)))

\* ----------------------------------------------------- sentiment prediction
\* (mutant) the confidence is the positive-class probability itself
confidence_of_raw(probability) == probability

\* confidence = max(probability, 1 - probability)
confidence_of(probability) == Max(probability, One - probability)

\* (mutant) predict_sentiment without its test for an empty normalized text
predict_sentiment_run_unguarded(self, review_text, env) ==
    LET processed == preprocess_text(review_text, env)
        features == transform(self.tfidf_vectorizer, processed)
        prediction == predict(self.sentiment_model, features)
        probability == predict_proba(self.sentiment_model, features)
    IN  [ret |-> [sentiment |-> IF prediction = 1 THEN "Positive" ELSE "Negative",
                  probability |-> probability,
                  confidence |-> Max(probability, One - probability)],
         calls |-> <<"transform", "predict", "predict_proba">>]

\* One run of predict_sentiment: the dict it returns (ret) and the calls it
\* made on the artifacts, in order (calls).
predict_sentiment_run(self, review_text, env) ==
    LET processed == preprocess_text(review_text, env)
    IN  IF processed = <<>>
        THEN [ret |-> [sentiment |-> "Unknown",
                       probability |-> Half,
                       confidence |-> 0,
                       error |-> "Review text is empty after preprocessing"],
              calls |-> <<>>]
        ELSE LET features == transform(self.tfidf_vectorizer, processed)
                 prediction == predict(self.sentiment_model, features)
                 probability == predict_proba(self.sentiment_model, features)
                 sentiment_label == IF prediction = 1 THEN "Positive" ELSE "Negative"
                 confidence == confidence_of(probability)
             IN  [ret |-> [sentiment |-> sentiment_label,
                           probability |-> probability,
                           confidence |-> confidence],
                  calls |-> <<"transform", "predict", "predict_proba">>]

predict_sentiment(self, review_text, env) ==
    predict_sentiment_run(self, review_text, env).ret

\* dict.get(key): <<value>>, None for an absent key
Get(d, key) == IF key \in DOMAIN d THEN <<d[key]>> ELSE None

\* -------------------------------------------------- recommendation engine
\* A mean of probabilities is kept exact, as the fraction num / den of the
\* sum of the numerators and the number of values (in units of 1 / One).
RatLess(a, b) == a.num * b.den < b.num * a.den
RatEq(a, b) == a.num * b.den = b.num * a.den

RECURSIVE SumSeq(_)
SumSeq(xs) == IF xs = <<>> THEN 0 ELSE Head(xs) + SumSeq(Tail(xs))

\* (mutant) the share of the values that lie above one half
mean_vote(xs) ==
    [num |-> One * Len(SelectSeq(xs, LAMBDA x : x > Half)), den |-> Len(xs)]

\* np.mean(sentiments)
mean(xs) == [num |-> SumSeq(xs), den |-> Len(xs)]

\* recommender.recommend(username, n=k): the user's ranked candidates, at
\* most k of them
recommend(recommender, username, k) ==
    SubSeq(recommender.recs[username], 1, Min(k, Len(recommender.recs[username])))

\* reviews_df[reviews_df['name'] == product_name]['reviews_text'].values
product_reviews(reviews_df, product_name) ==
    LET rows == SelectSeq(reviews_df, LAMBDA r : r.name = product_name)
    IN  [i \in 1..Len(rows) |-> rows[i].reviews_text]

\* the loop over cf_candidates: one score per candidate that has reviews
RECURSIVE score_candidates(_, _, _)
score_candidates(self, cf_candidates, env) ==
    IF cf_candidates = <<>> THEN <<>>
    ELSE LET product_name == Head(cf_candidates)
             reviews == product_reviews(self.reviews_df, product_name)
             sentiments ==
                 [i \in 1..Len(reviews) |->
                     predict_sentiment(self, reviews[i], env).probability]
             rest == score_candidates(self, Tail(cf_candidates), env)
         IN  IF Len(reviews) = 0 THEN rest
             ELSE <<[product |-> product_name,
                     positive_ratio |-> mean(sentiments),
                     review_count |-> Len(sentiments)]>> \o rest

\* (mutant) x goes in front of the items whose ratio equals its own
RECURSIVE InsertDescTiesFirst(_, _)
InsertDescTiesFirst(sorted, x) ==
    IF sorted = <<>> THEN <<x>>
    ELSE IF ~RatLess(x.positive_ratio, Head(sorted).positive_ratio)
         THEN <<x>> \o sorted
         ELSE <<Head(sorted)>> \o InsertDescTiesFirst(Tail(sorted), x)

\* x goes behind every item whose ratio is at least its own
RECURSIVE InsertDesc(_, _)
InsertDesc(sorted, x) ==
    IF sorted = <<>> THEN <<x>>
    ELSE IF RatLess(Head(sorted).positive_ratio, x.positive_ratio)
         THEN <<x>> \o sorted
         ELSE <<Head(sorted)>> \o InsertDesc(Tail(sorted), x)

RECURSIVE SortFrom(_, _)
SortFrom(sorted, items) ==
    IF items = <<>> THEN sorted
    ELSE SortFrom(InsertDesc(sorted, Head(items)), Tail(items))

\* product_scores.sort(key=lambda x: x['positive_ratio'], reverse=True):
\* descending, items of equal key in their order of arrival
sort_scores(product_scores) == SortFrom(<<>>, product_scores)

\* list[:n]
Slice(xs, n) ==
    IF n >= 0 THEN SubSeq(xs, 1, Min(n, Len(xs)))
    ELSE SubSeq(xs, 1, Max(Len(xs) + n, 0))

format_recommendations(product_scores, n) ==
    LET top == Slice(product_scores, n)
    IN  [i \in 1..Len(top) |->
            [product |-> top[i].product,
             sentiment_score |-> top[i].positive_ratio,
             review_count |-> top[i].review_count]]

\* (mutant) the two explanations exchanged
explanation_text_swapped(is_cold_start) ==
    IF is_cold_start
    THEN "Recommended based on collaborative filtering + sentiment analysis"
    ELSE "Recommended based on popularity"

explanation_text(is_cold_start) ==
    IF ~is_cold_start
    THEN "Recommended based on collaborative filtering + sentiment analysis"
    ELSE "Recommended based on popularity"

\* (mutant) a user is cold-start when the recommender has no candidates
cold_start_of_no_candidates(self, username) ==
    recommend(self.recommender, username, CF_CANDIDATES) = <<>>

\* is_cold_start = username not in self.recommender.user_index
cold_start_of(self, username) == username \notin self.recommender.user_index

\* recommend_products(username, n)
recommend_products(self, username, n, env) ==
    LET is_cold_start == cold_start_of(self, username)
        cf_candidates == recommend(self.recommender, username, CF_CANDIDATES)
    IN  IF cf_candidates = <<>>
        THEN [recommendations |-> <<>>,
              explanation |-> "No recommendations available",
              cold_start |-> is_cold_start]
        ELSE LET product_scores == score_candidates(self, cf_candidates, env)
                 ranked == sort_scores(product_scores)
             IN  [recommendations |-> format_recommendations(ranked, n),
                  explanation |-> explanation_text(is_cold_start),
                  cold_start |-> is_cold_start]

\* ------------------------------------------------------- combined pipeline
\* (mutant) n_recommendations is not passed on to recommend_products
predict_and_recommend_run_default_n(self, username, review_text, n_recommendations, env, now) ==
    LET sentiment_result == predict_sentiment(self, review_text, env)
        recommendation_result ==
            recommend_products(self, username, RECOMMENDATION_TOP_N, env)
    IN  [ret |-> [sentiment |-> Get(sentiment_result, "sentiment"),
                  sentiment_probability |-> Get(sentiment_result, "probability"),
                  sentiment_confidence |-> Get(sentiment_result, "confidence"),
                  recommendations |-> Get(recommendation_result, "recommendations"),
                  recommendation_explanation |->
                      Get(recommendation_result, "explanation"),
                  is_new_user |-> Get(recommendation_result, "cold_start"),
                  timestamp |-> now],
         calls |-> << <<"predict_sentiment", review_text>>,
                      <<"recommend_products", username, RECOMMENDATION_TOP_N>> >>]

\* One run of predict_and_recommend at wall-clock time now: the dict it
\* returns (ret) and the calls it made on the two sub-pipelines (calls).
predict_and_recommend_run(self, username, review_text, n_recommendations, env, now) ==
    LET sentiment_result == predict_sentiment(self, review_text, env)
        recommendation_result ==
            recommend_products(self, username, n_recommendations, env)
    IN  [ret |-> [sentiment |-> Get(sentiment_result, "sentiment"),
                  sentiment_probability |-> Get(sentiment_result, "probability"),
                  sentiment_confidence |-> Get(sentiment_result, "confidence"),
                  recommendations |-> Get(recommendation_result, "recommendations"),
                  recommendation_explanation |->
                      Get(recommendation_result, "explanation"),
                  is_new_user |-> Get(recommendation_result, "cold_start"),
                  timestamp |-> now],
         calls |-> << <<"predict_sentiment", review_text>>,
                      <<"recommend_products", username, n_recommendations>> >>]

predict_and_recommend(self, username, review_text, n_recommendations, env, now) ==
    predict_and_recommend_run(self, username, review_text, n_recommendations,
                              env, now).ret

\* ---------------------------------------------------------- artifact store
\* The directory model.py lies in (PICKLE_DIR) and another directory a
\* caller may configure.
PICKLE_DIR == "module_dir"
Dirs == {PICKLE_DIR, "other_dir"}

\* os.path.exists(os.path.join(dir, fname)) on the file system d
exists(d, dir, fname) == d[dir][fname] # Absent

\* index of the first required file PICKLE_DIR lacks, 0 if it has all
RECURSIVE FirstUnreadable(_, _)
FirstUnreadable(d, i) ==
    IF i > Len(REQUIRED_FILES) THEN 0
    ELSE IF ~exists(d, PICKLE_DIR, REQUIRED_FILES[i]) THEN i
    ELSE FirstUnreadable(d, i + 1)

\* _load_pickle(fname): the content of PICKLE_DIR/fname
_load_pickle(d, fname) == d[PICKLE_DIR][fname][1]

\* (mutant) the error names only the first missing file
_load_artifacts_first_missing(d, pickle_dir) ==
    LET missing == SelectSeq(REQUIRED_FILES, LAMBDA f : ~exists(d, pickle_dir, f))
    IN  IF missing # <<>>
        THEN [ok |-> FALSE,
              exc |-> [type |-> "FileNotFoundError",
                       missing |-> <<Head(missing)>>,
                       location |-> pickle_dir],
              loaded |-> <<>>]
        ELSE [ok |-> TRUE,
              attrs |-> [tfidf_vectorizer |-> _load_pickle(d, "tfidf_vectorizer.pkl"),
                         sentiment_model |-> _load_pickle(d, "sentiment_model.pkl"),
                         recommender |-> _load_pickle(d, "user_based_cf.pkl"),
                         reviews_df |-> _load_pickle(d, "master_reviews.pkl")],
              loaded |-> REQUIRED_FILES]

\* _load_artifacts() of an instance configured with pickle_dir, on the file
\* system d: the exception raised or the attributes set, and the files
\* deserialized on the way (loaded)
_load_artifacts(d, pickle_dir) ==
    LET missing == SelectSeq(REQUIRED_FILES, LAMBDA f : ~exists(d, pickle_dir, f))
        bad == FirstUnreadable(d, 1)
    IN  IF missing # <<>>
        THEN [ok |-> FALSE,
              exc |-> [type |-> "FileNotFoundError",
                       missing |-> missing,
                       location |-> pickle_dir],
              loaded |-> <<>>]
        ELSE IF bad # 0
        THEN [ok |-> FALSE,
              exc |-> [type |-> "FileNotFoundError",
                       path |-> <<PICKLE_DIR, REQUIRED_FILES[bad]>>],
              loaded |-> SubSeq(REQUIRED_FILES, 1, bad - 1)]
        ELSE [ok |-> TRUE,
              attrs |-> [tfidf_vectorizer |-> _load_pickle(d, "tfidf_vectorizer.pkl"),
                         sentiment_model |-> _load_pickle(d, "sentiment_model.pkl"),
                         recommender |-> _load_pickle(d, "user_based_cf.pkl"),
                         reviews_df |-> _load_pickle(d, "master_reviews.pkl")],
              loaded |-> REQUIRED_FILES]

\* SentimentRecommenderSystem(pickle_dir): the object, number id, that a
\* successful construction yields
NewSystem(id, pickle_dir, attrs) ==
    [id |-> id,
     pickle_dir |-> pickle_dir,
     tfidf_vectorizer |-> attrs.tfidf_vectorizer,
     sentiment_model |-> attrs.sentiment_model,
     recommender |-> attrs.recommender,
     reviews_df |-> attrs.reviews_df]

\* the artifact bundle an instance holds
Bundle(self) ==
    [tfidf_vectorizer |-> self.tfidf_vectorizer,
     sentiment_model |-> self.sentiment_model,
     recommender |-> self.recommender,
     reviews_df |-> self.reviews_df]

\* ------------------------------------------------------------ sample data
Users == {"alice", "bob"}
KnownUsers == {"alice"}
Products == {"p1", "p2", "p3"}

Saw == <<"s", "a", "w">>
Aaa == <<"a", "a", "a">>
Was == <<"w", "a", "s">>

SampleVocabulary == {Saw, Aaa}
SampleClassifier == [intercept |-> 0, coef |-> [t \in SampleVocabulary |-> IF t = Saw THEN 1 ELSE -1]]
SampleRecommender ==
    [user_index |-> KnownUsers,
     recs |-> [u \in Users |-> IF u \in KnownUsers THEN <<"p2", "p1", "p3">> ELSE <<"p1", "p2">>]]
SampleReviews ==
    <<[name |-> "p1", reviews_text |-> Saw],
      [name |-> "p2", reviews_text |-> Aaa],
      [name |-> "p1", reviews_text |-> NaN]>>

SampleContent(fname) ==
    CASE fname = "tfidf_vectorizer.pkl" -> SampleVocabulary
      [] fname = "sentiment_model.pkl" -> SampleClassifier
      [] fname = "user_based_cf.pkl" -> SampleRecommender
      [] fname = "master_reviews.pkl" -> SampleReviews

EmptyDir == [f \in Files |-> Absent]

\* a file system whose PICKLE_DIR holds the sample artifacts named in present
SampleDisk(present) ==
    [dir \in Dirs |->
        IF dir = PICKLE_DIR
        THEN [f \in Files |-> IF f \in present THEN <<SampleContent(f)>> ELSE Absent]
        ELSE EmptyDir]

\* ------------------------------------------------------------------ state
VARIABLES
    nltk,       \* the language resources of the process (an element of NltkEnvs)
    disk,       \* the file system: directory -> file -> Absent or <<content>>
    _system,    \* model.py's global _system: None or <<instance>>
    system,     \* app.py's global system: None or <<instance>>
    pc,         \* where each request thread stands
    local,      \* each thread's local values
    used,       \* the id of the instance each thread's view last called, 0 if none
    nobjects,   \* instances constructed so far
    loads,      \* pickle.load calls made so far
    last,       \* status code of the latest response, 0 before the first
    call,       \* the latest call made on the core, with its arguments
    result,     \* what that call returned: None or <<record>>
    failed      \* a construction attempt of this process has raised

vars ==
    <<nltk, disk, _system, system, pc, local, used, nobjects, loads, last, call,
      result, failed>>

Threads == 1..NumThreads

NoCall == [op |-> "none"]

IdleLocal == [api |-> FALSE, obj |-> None, ret |-> None, exc |-> None, loaded |-> <<>>]

\* ------------------------------------------------ the serving process (Flask)
\* The file system outside the process: an artifact file is written to or
\* deleted from PICKLE_DIR.
FileAppears(f) ==
    /\ ~exists(disk, PICKLE_DIR, f)
    /\ disk' = [disk EXCEPT ![PICKLE_DIR][f] = <<SampleContent(f)>>]
    /\ UNCHANGED <<nltk, failed, _system, system, pc, local, used, nobjects, loads, last,
                   call, result>>

FileRemoved(f) ==
    /\ exists(disk, PICKLE_DIR, f)
    /\ disk' = [disk EXCEPT ![PICKLE_DIR][f] = Absent]
    /\ UNCHANGED <<nltk, failed, _system, system, pc, local, used, nobjects, loads, last,
                   call, result>>

\* before_request(): a request arrives on thread t; a path under /api/ with
\* system still None goes through initialize_system()
BeforeRequest(t, api) ==
    /\ pc[t] = "idle"
    /\ local' = [local EXCEPT ![t] = [IdleLocal EXCEPT !.api = api]]
    /\ pc' = [pc EXCEPT ![t] = IF system = None /\ api THEN "get_system" ELSE "view"]
    /\ UNCHANGED <<nltk, failed, disk, _system, system, used, nobjects, loads, last, call,
                   result>>

\* get_system(): if _system is None
GetSystemCheck(t) ==
    /\ pc[t] = "get_system"
    /\ pc' = [pc EXCEPT ![t] = IF _system = None THEN "construct" ELSE "return"]
    /\ UNCHANGED <<nltk, failed, disk, _system, system, local, used, nobjects, loads, last,
                   call, result>>

\* SentimentRecommenderSystem(): __init__ runs _load_artifacts(); an exception
\* leaves get_system() and is caught in initialize_system(), which returns False
Construct(t) ==
    /\ pc[t] = "construct"
    /\ LET out == _load_artifacts(disk, PICKLE_DIR)
       IN  IF out.ok
           THEN /\ nobjects' = nobjects + 1
                /\ local' = [local EXCEPT
                       ![t].obj = <<NewSystem(nobjects + 1, PICKLE_DIR, out.attrs)>>,
                       ![t].loaded = out.loaded]
                /\ pc' = [pc EXCEPT ![t] = "store"]
                /\ loads' = loads + Len(out.loaded)
                /\ failed' = failed
           ELSE /\ nobjects' = nobjects
                /\ failed' = TRUE
                /\ local' = [local EXCEPT ![t].exc = <<out.exc>>,
                                          ![t].loaded = out.loaded]
                /\ pc' = [pc EXCEPT ![t] = "view"]
                /\ loads' = loads + Len(out.loaded)
    /\ UNCHANGED <<nltk, disk, _system, system, used, last, call, result>>

\* get_system(): _system = <the new instance>
Store(t) ==
    /\ pc[t] = "store"
    /\ _system' = local[t].obj
    /\ pc' = [pc EXCEPT ![t] = "return"]
    /\ UNCHANGED <<nltk, failed, disk, system, local, used, nobjects, loads, last, call,
                   result>>

\* get_system(): return _system
Return(t) ==
    /\ pc[t] = "return"
    /\ local' = [local EXCEPT ![t].ret = _system]
    /\ pc' = [pc EXCEPT ![t] = "assign"]
    /\ UNCHANGED <<nltk, failed, disk, _system, system, used, nobjects, loads, last, call,
                   result>>

\* initialize_system(): system = get_system()
Assign(t) ==
    /\ pc[t] = "assign"
    /\ system' = local[t].ret
    /\ pc' = [pc EXCEPT ![t] = "view"]
    /\ UNCHANGED <<nltk, failed, disk, _system, local, used, nobjects, loads, last, call,
                   result>>

\* The view of a well-formed request: the index page, or an API view, which
\* answers 500 while system is None and else calls the core and answers 200.
View(t) ==
    /\ pc[t] = "view"
    /\ pc' = [pc EXCEPT ![t] = "idle"]
    /\ IF ~local[t].api
       THEN last' = 200 /\ UNCHANGED used
       ELSE IF system = None
       THEN last' = 500 /\ UNCHANGED used
       ELSE /\ last' = 200
            /\ used' = [used EXCEPT ![t] = system[1].id]
    /\ UNCHANGED <<nltk, failed, disk, _system, system, local, nobjects, loads, call,
                   result>>

Init ==
    /\ nltk = NoNltk
    /\ disk \in {SampleDisk(present) : present \in SUBSET Files}
    /\ _system = None
    /\ system = None
    /\ pc = [t \in Threads |-> "idle"]
    /\ local = [t \in Threads |-> IdleLocal]
    /\ used = [t \in Threads |-> 0]
    /\ nobjects = 0
    /\ loads = 0
    /\ last = 0
    /\ call = NoCall
    /\ result = None
    /\ failed = FALSE

Next ==
    \/ \E f \in Files : FileAppears(f)
    \/ \E f \in Files : FileRemoved(f)
    \/ \E t \in Threads, api \in BOOLEAN : BeforeRequest(t, api)
    \/ \E t \in Threads : GetSystemCheck(t)
    \/ \E t \in Threads : Construct(t)
    \/ \E t \in Threads : Store(t)
    \/ \E t \in Threads : Return(t)
    \/ \E t \in Threads : Assign(t)
    \/ \E t \in Threads : View(t)

Spec == Init /\ [][Next]_vars

\* ------------------------------------------------- the core, call by call
\* One call on the core of a loaded process is followed from its arguments to
\* what it returns.
\* The raw texts given to the normalizer and the scorer: every text of at
\* most MaxTextLen characters, and a value that is no string.
Texts == UNION {[1..k -> Alphabet] : k \in 0..MaxTextLen} \cup {NaN}

\* a process whose system was constructed from the file system d
Loaded(d) ==
    /\ disk = d
    /\ _system = <<NewSystem(1, PICKLE_DIR, _load_artifacts(d, PICKLE_DIR).attrs)>>
    /\ system = _system
    /\ pc = [t \in Threads |-> "idle"]
    /\ local = [t \in Threads |-> IdleLocal]
    /\ used = [t \in Threads |-> 0]
    /\ nobjects = 1
    /\ loads = Len(REQUIRED_FILES)
    /\ last = 0
    /\ call = NoCall
    /\ result = None
    /\ failed = FALSE

InitText ==
    /\ nltk \in NltkEnvs
    /\ Loaded(SampleDisk(Files))

\* preprocess_text(text) is called
CallPreprocess(text) ==
    /\ result = None
    /\ call' = [op |-> "preprocess_text", review_text |-> text]
    /\ result' = <<[ret |-> preprocess_text(text, nltk)]>>
    /\ UNCHANGED <<nltk, failed, disk, _system, system, pc, local, used, nobjects, loads,
                   last>>

\* system.predict_sentiment(text) is called
CallPredict(text) ==
    /\ result = None
    /\ call' = [op |-> "predict_sentiment", review_text |-> text]
    /\ result' = <<predict_sentiment_run(system[1], text, nltk)>>
    /\ UNCHANGED <<nltk, failed, disk, _system, system, pc, local, used, nobjects, loads,
                   last>>

NextText ==
    \/ \E text \in Texts : CallPreprocess(text)
    \/ \E text \in Texts : CallPredict(text)

SpecText == InitText /\ [][NextText]_vars

\* The review tables and candidate lists the engine is run on.
CorpusTexts == {Saw, NaN}
Rows == [name : Products, reviews_text : CorpusTexts]
Tables == UNION {[1..k -> Rows] : k \in 0..MaxRows}
CandLists == UNION {[1..k -> Products] : k \in 0..MaxCand}
Times == {"2026-02-28T12:34:56", "2026-02-28T12:34:57"}
CoreTexts == {Saw, Was}

\* a file system whose PICKLE_DIR holds the sample vectorizer and classifier,
\* a recommender that ranks cands for every user, and the review table
CoreDisk(cands, table) ==
    [dir \in Dirs |->
        IF dir = PICKLE_DIR
        THEN [f \in Files |->
                 CASE f = "user_based_cf.pkl" ->
                        <<[user_index |-> KnownUsers, recs |-> [u \in Users |-> cands]]>>
                   [] f = "master_reviews.pkl" -> <<table>>
                   [] OTHER -> <<SampleContent(f)>>]
        ELSE EmptyDir]

InitCore ==
    /\ nltk = NoNltk
    /\ \E cands \in CandLists, table \in Tables : Loaded(CoreDisk(cands, table))

\* system.recommend_products(username, n) is called
CallRecommend(username, n) ==
    /\ result = None
    /\ call' = [op |-> "recommend_products", username |-> username, n |-> n]
    /\ result' = <<[ret |-> recommend_products(system[1], username, n, nltk)]>>
    /\ UNCHANGED <<nltk, failed, disk, _system, system, pc, local, used, nobjects, loads,
                   last>>

\* system.predict_and_recommend(username, review_text, n) is called at time now
CallCombined(username, text, n, now) ==
    /\ result = None
    /\ call' = [op |-> "predict_and_recommend", username |-> username,
                review_text |-> text, n |-> n]
    /\ result' = <<predict_and_recommend_run(system[1], username, text, n, nltk, now)>>
    /\ UNCHANGED <<nltk, failed, disk, _system, system, pc, local, used, nobjects, loads,
                   last>>

NextCore == \E username \in Users, n \in 1..MaxN : CallRecommend(username, n)

SpecCore == InitCore /\ [][NextCore]_vars

\* The combined pipeline is run on every review table, with a recommender
\* that ranks no product or every product.
PipelineCands == {<<>>, <<"p1", "p2", "p3">>}

InitPipeline ==
    /\ nltk = NoNltk
    /\ \E cands \in PipelineCands, table \in Tables : Loaded(CoreDisk(cands, table))

NextPipeline ==
    \E username \in Users, text \in CoreTexts, n \in 1..MaxN, now \in Times :
        CallCombined(username, text, n, now)

SpecPipeline == InitPipeline /\ [][NextPipeline]_vars

\* ------------------------------------------------------- the HTTP boundary
\* The limits the views test.
MAX_REVIEW_CHARS == 5000
MAX_USERNAME_CHARS == 50
MIN_N == 1
MAX_N == 20
DEFAULT_N == 5

\* A value of a JSON body's field.  A str is held run-length encoded, as the
\* characters head followed by fill times the letter "a"; a value that is no
\* str (a number, a list, null) has kind "other"; an absent key has kind
\* "absent".  A count is held as [kind, val], val its value when it is an int.
Str(head, fill) == [kind |-> "str", head |-> head, fill |-> fill]
NoStr == [kind |-> "other", head |-> <<>>, fill |-> 0]
NoKey == [kind |-> "absent", head |-> <<>>, fill |-> 0]
IntVal(n) == [kind |-> "int", val |-> n]

\* the characters of a str
Chars(x) == x.head \o [i \in 1..x.fill |-> "a"]
\* len(x)
PyLen(x) == Len(x.head) + x.fill
\* x.strip(): the fill holds no whitespace
PyStrip(x) ==
    IF x.fill = 0 THEN Str(strip(x.head), 0) ELSE Str(lstrip(x.head), x.fill)

\* data.get(key, ''): the field, '' for an absent key
GetStr(data, key) == IF data[key].kind = "absent" THEN Str(<<>>, 0) ELSE data[key]
\* data.get('n_recommendations', 5)
GetCount(data) ==
    IF data.n_recommendations.kind = "absent" THEN IntVal(DEFAULT_N)
    ELSE data.n_recommendations

\* not data: the body is the empty object
EmptyBody(data) ==
    /\ data.username.kind = "absent"
    /\ data.review_text.kind = "absent"
    /\ data.n_recommendations.kind = "absent"

\* if not isinstance(n, int) or n < 1 or n > 20: n = 5
checked_n(n) ==
    IF n.kind # "int" \/ n.val < MIN_N \/ n.val > MAX_N THEN DEFAULT_N ELSE n.val

\* The text of the health views' trial prediction.
HealthText == <<"t", "e", "s", "t">>

\* ------------------------------------------ the core, when a library raises
\* The calls one run of the scoring loop makes on the vectorizer and the
\* classifier, in order.
RECURSIVE review_calls(_, _, _)
review_calls(self, reviews, env) ==
    IF reviews = <<>> THEN <<>>
    ELSE predict_sentiment_run(self, Head(reviews), env).calls
         \o review_calls(self, Tail(reviews), env)

RECURSIVE scoring_calls(_, _, _)
scoring_calls(self, cf_candidates, env) ==
    IF cf_candidates = <<>> THEN <<>>
    ELSE review_calls(self, product_reviews(self.reviews_df, Head(cf_candidates)), env)
         \o scoring_calls(self, Tail(cf_candidates), env)

\* the library calls of recommend_products(username, n): the recommender's
\* recommend, then the scoring loop
recommend_products_calls(self, username, env) ==
    <<"recommend">>
    \o scoring_calls(self, recommend(self.recommender, username, CF_CANDIDATES), env)

\* (mutant) an exception of the vectorizer or the classifier is swallowed and
\* the call returns what it would have returned
Outcome_skip_in_loop(calls, ret, fault) ==
    IF fault \in 1..Len(calls) /\ calls[fault] = "recommend"
    THEN [raised |-> TRUE, at |-> calls[fault]]
    ELSE [raised |-> FALSE, ret |-> ret]

\* A call on the core whose library calls are calls and which returns ret
\* when none of them raises: with fault = k > 0 the k-th library call raises
\* and the exception leaves the core; there is no try around any of them.
Outcome(calls, ret, fault) ==
    IF fault \in 1..Len(calls)
    THEN [raised |-> TRUE, at |-> calls[fault]]
    ELSE [raised |-> FALSE, ret |-> ret]

\* the outcome of a run [ret, calls]
OutcomeOf(run, fault) == Outcome(run.calls, run.ret, fault)

\* system.predict_sentiment(review_text)
core_predict(self, review_text, env, fault) ==
    OutcomeOf(predict_sentiment_run(self, review_text, env), fault)

\* system.recommend_products(username, n=n)
core_recommend(self, username, n, env, fault) ==
    Outcome(recommend_products_calls(self, username, env),
            recommend_products(self, username, n, env), fault)

\* system.predict_and_recommend(username, review_text, n_recommendations=n)
core_combined(self, username, review_text, n, env, now, fault) ==
    Outcome(predict_sentiment_run(self, review_text, env).calls
                \o recommend_products_calls(self, username, env),
            predict_and_recommend(self, username, review_text, n, env, now), fault)

\* what a view passed to the core: the method and its arguments (a str as its
\* encoding, None for an argument the method does not take)
CoreCall(op, username, review_text, n) ==
    [op |-> op, username |-> username, review_text |-> review_text, n |-> n]

\* a response: status code, JSON body, and the calls made on the core
Reply(status, body, core) == [status |-> status, body |-> body, core |-> core]

\* result['success'] = True

\* ----------------------------------------------------- the Flask views
\* jsonify({'error': message, 'success': False})
FlaskError(message) == [error |-> message, success |-> FALSE]

\* the body built in a view's except clause
FlaskException(message) ==
    [error |-> message, success |-> FALSE, traceback |-> "Traceback"]

\* the end of a view's try block: the core raised into the except clause, or
\* returned and result['success'] = True
FlaskCoreReply(out, made) ==
    IF out.raised THEN Reply(500, FlaskException(out.at), made)
    ELSE Reply(200, out.ret @@ ("success" :> TRUE), made)

\* api_predict_sentiment(), on body data, with the global system as sys
api_predict_sentiment(data, sys, env, fault) ==
    IF EmptyBody(data) THEN Reply(400, FlaskError("No JSON data provided"), <<>>)
    ELSE IF GetStr(data, "review_text").kind # "str"
    THEN Reply(500, FlaskException("AttributeError"), <<>>)
    ELSE LET review_text == PyStrip(GetStr(data, "review_text"))
         IN  IF PyLen(review_text) = 0
             THEN Reply(400, FlaskError("Review text is empty"), <<>>)
             ELSE IF PyLen(review_text) > MAX_REVIEW_CHARS
             THEN Reply(400, FlaskError("Review text too long (max 5000 chars)"), <<>>)
             ELSE IF sys = None
             THEN Reply(500, FlaskError("System not initialized"), <<>>)
             ELSE FlaskCoreReply(
                      core_predict(sys[1], Chars(review_text), env, fault),
                      <<CoreCall("predict_sentiment", None, <<review_text>>, None)>>)

\* api_recommend_products()
api_recommend_products(data, sys, env, fault) ==
    IF EmptyBody(data) THEN Reply(400, FlaskError("No JSON data provided"), <<>>)
    ELSE IF GetStr(data, "username").kind # "str"
    THEN Reply(500, FlaskException("AttributeError"), <<>>)
    ELSE LET username == PyStrip(GetStr(data, "username"))
             n == checked_n(GetCount(data))
         IN  IF PyLen(username) = 0
             THEN Reply(400, FlaskError("Username is required"), <<>>)
             ELSE IF PyLen(username) > MAX_USERNAME_CHARS
             THEN Reply(400, FlaskError("Username too long (max 50 chars)"), <<>>)
             ELSE IF sys = None
             THEN Reply(500, FlaskError("System not initialized"), <<>>)
             ELSE FlaskCoreReply(
                      core_recommend(sys[1], Chars(username), n, env, fault),
                      <<CoreCall("recommend_products", <<username>>, None, <<n>>)>>)

\* api_predict_and_recommend(), answered at wall-clock time now
api_predict_and_recommend(data, sys, env, now, fault) ==
    IF EmptyBody(data) THEN Reply(400, FlaskError("No JSON data provided"), <<>>)
    ELSE IF GetStr(data, "username").kind # "str"
            \/ GetStr(data, "review_text").kind # "str"
    THEN Reply(500, FlaskException("AttributeError"), <<>>)
    ELSE LET username == PyStrip(GetStr(data, "username"))
             review_text == PyStrip(GetStr(data, "review_text"))
             n == checked_n(GetCount(data))
         IN  IF PyLen(username) = 0
             THEN Reply(400, FlaskError("Username is required"), <<>>)
             ELSE IF PyLen(review_text) = 0
             THEN Reply(400, FlaskError("Review text is required"), <<>>)
             ELSE IF PyLen(username) > MAX_USERNAME_CHARS
             THEN Reply(400, FlaskError("Username too long (max 50 chars)"), <<>>)
             ELSE IF PyLen(review_text) > MAX_REVIEW_CHARS
             THEN Reply(400, FlaskError("Review text too long (max 5000 chars)"), <<>>)
             ELSE IF sys = None
             THEN Reply(500, FlaskError("System not initialized"), <<>>)
             ELSE FlaskCoreReply(
                      core_combined(sys[1], Chars(username), Chars(review_text),
                                           n, env, now, fault),
                      <<CoreCall("predict_and_recommend", <<username>>,
                                         <<review_text>>, <<n>>)>>)

\* the end of a health view's try block: the trial prediction raised or
\* returned (both wrappers build the same two bodies)
HealthReply(out) ==
    IF out.raised
    THEN Reply(500, [status |-> "error", message |-> out.at, system_ready |-> FALSE],
               <<CoreCall("predict_sentiment", None, <<Str(HealthText, 0)>>, None)>>)
    ELSE Reply(200, [status |-> "healthy",
                     message |-> "Sentiment/Recommendation system is operational",
                     system_ready |-> TRUE],
               <<CoreCall("predict_sentiment", None, <<Str(HealthText, 0)>>, None)>>)

\* api_health()
api_health(sys, env, fault) ==
    IF sys = None
    THEN Reply(500, [status |-> "error", message |-> "System not initialized"], <<>>)
    ELSE HealthReply(core_predict(sys[1], HealthText, env, fault))

\* The URL rules of app: the path of every @app.route and the method it takes.
FlaskRoutes ==
    [p \in {"/api/predict", "/api/recommend", "/api/combined", "/api/health"} |->
        IF p = "/api/health" THEN "GET" ELSE "POST"]

\* request.path.startswith('/api/'), on the paths requests are drawn from
StartsWithApi(path) ==
    path \in {"/api/predict", "/api/recommend", "/api/combined", "/api/health",
              "/api/status"}

\* Flask's dispatch of a request to a view or to an error handler
flask_dispatch(method, path, data, sys, env, now, fault) ==
    IF path \notin DOMAIN FlaskRoutes
    THEN Reply(404, FlaskError("Endpoint not found"), <<>>)
    ELSE IF method # FlaskRoutes[path]
    THEN Reply(405, FlaskError("Method not allowed"), <<>>)
    ELSE CASE path = "/api/predict" -> api_predict_sentiment(data, sys, env, fault)
           [] path = "/api/recommend" -> api_recommend_products(data, sys, env, fault)
           [] path = "/api/combined" ->
                  api_predict_and_recommend(data, sys, env, now, fault)
           [] path = "/api/health" -> api_health(sys, env, fault)

\* ------------------------------------------- the serverless handler
\* json_response(data, status_code)
json_response(data, status_code, core) == Reply(status_code, data, core)

\* (mutant) the message goes under the key 'message'
error_response_message(message, status_code, core) ==
    json_response([message |-> message, success |-> FALSE], status_code, core)

\* error_response(message, status_code)
error_response(message, status_code, core) ==
    json_response([error |-> message, success |-> FALSE], status_code, core)

\* a handle_* function returned a response
Returns(reply) == [raised |-> FALSE, reply |-> reply]
\* a handle_* function raised outside its try
Raises(exc) == [raised |-> TRUE, at |-> exc]

\* the end of a handle_* function's try block
IndexCoreReply(out, message, made) ==
    IF out.raised THEN Returns(error_response(message, 500, made))
    ELSE Returns(json_response(out.ret @@ ("success" :> TRUE), 200, made))

\* handle_predict(data), with the global system as sys
handle_predict(data, sys, env, fault) ==
    IF sys = None THEN Returns(error_response("System not initialized", 500, <<>>))
    ELSE IF GetStr(data, "review_text").kind # "str" THEN Raises("AttributeError")
    ELSE LET review_text == PyStrip(GetStr(data, "review_text"))
         IN  IF PyLen(review_text) = 0
             THEN Returns(error_response("Review text is required", 400, <<>>))
             ELSE IF PyLen(review_text) > MAX_REVIEW_CHARS
             THEN Returns(error_response("Review text too long (max 5000 chars)",
                                         400, <<>>))
             ELSE IndexCoreReply(
                      core_predict(sys[1], Chars(review_text), env, fault),
                      "Prediction error",
                      <<CoreCall("predict_sentiment", None, <<review_text>>, None)>>)

\* handle_recommend(data)
handle_recommend(data, sys, env, fault) ==
    IF sys = None THEN Returns(error_response("System not initialized", 500, <<>>))
    ELSE IF GetStr(data, "username").kind # "str" THEN Raises("AttributeError")
    ELSE LET username == PyStrip(GetStr(data, "username"))
             n == checked_n(GetCount(data))
         IN  IF PyLen(username) = 0
             THEN Returns(error_response("Username is required", 400, <<>>))
             ELSE IF PyLen(username) > MAX_USERNAME_CHARS
             THEN Returns(error_response("Username too long (max 50 chars)", 400, <<>>))
             ELSE IndexCoreReply(
                      core_recommend(sys[1], Chars(username), n, env, fault),
                      "Recommendation error",
                      <<CoreCall("recommend_products", <<username>>, None, <<n>>)>>)

\* handle_combined(data), answered at wall-clock time now
handle_combined(data, sys, env, now, fault) ==
    IF sys = None THEN Returns(error_response("System not initialized", 500, <<>>))
    ELSE IF GetStr(data, "username").kind # "str"
            \/ GetStr(data, "review_text").kind # "str"
    THEN Raises("AttributeError")
    ELSE LET username == PyStrip(GetStr(data, "username"))
             review_text == PyStrip(GetStr(data, "review_text"))
             n == checked_n(GetCount(data))
         IN  IF PyLen(username) = 0
             THEN Returns(error_response("Username is required", 400, <<>>))
             ELSE IF PyLen(review_text) = 0
             THEN Returns(error_response("Review text is required", 400, <<>>))
             ELSE IF PyLen(username) > MAX_USERNAME_CHARS
             THEN Returns(error_response("Username too long (max 50 chars)", 400, <<>>))
             ELSE IF PyLen(review_text) > MAX_REVIEW_CHARS
             THEN Returns(error_response("Review text too long (max 5000 chars)",
                                         400, <<>>))
             ELSE IndexCoreReply(
                      core_combined(sys[1], Chars(username), Chars(review_text),
                                           n, env, now, fault),
                      "Pipeline error",
                      <<CoreCall("predict_and_recommend", <<username>>,
                                         <<review_text>>, <<n>>)>>)

\* handle_health(data)
handle_health(sys, env, fault) ==
    IF sys = None
    THEN Returns(json_response([status |-> "error", message |-> "System not initialized",
                                system_ready |-> FALSE], 500, <<>>))
    ELSE Returns(HealthReply(core_predict(sys[1], HealthText, env, fault)))

\* event.get('path', '/').lower(), on the paths requests are drawn from
PathLower(path) == IF path = "/API/PREDICT" THEN "/api/predict" ELSE path

\* the try around handler's routing: an exception that left a handle_*
\* function is answered 500
handler_try(r) ==
    IF r.raised THEN error_response("Internal error", 500, <<>>) ELSE r.reply

\* handler(event, context) after its initialize_system() call: the routing
handler_route(method, raw_path, data, sys, env, now, fault) ==
    handler_try(
        CASE PathLower(raw_path) = "/api/predict" /\ method = "POST" ->
                 handle_predict(data, sys, env, fault)
          [] PathLower(raw_path) = "/api/recommend" /\ method = "POST" ->
                 handle_recommend(data, sys, env, fault)
          [] PathLower(raw_path) = "/api/combined" /\ method = "POST" ->
                 handle_combined(data, sys, env, now, fault)
          [] PathLower(raw_path) = "/api/health" /\ method = "GET" ->
                 handle_health(sys, env, fault)
          [] OTHER -> Returns(error_response("Endpoint not found", 404, <<>>)))

\* --------------------------------------------- initialisation on a request
\* One uninterrupted run of get_system() with model._system = msys, on the
\* file system d, nobj instances having been constructed: the exception that
\* left it or the handle it returned, and what it did on the way.
get_system_run(msys, d, nobj) ==
    IF msys # None
    THEN [raised |-> FALSE, _system |-> msys, nobjects |-> nobj, loaded |-> <<>>]
    ELSE LET out == _load_artifacts(d, PICKLE_DIR)
         IN  IF out.ok
             THEN [raised |-> FALSE,
                   _system |-> <<NewSystem(nobj + 1, PICKLE_DIR, out.attrs)>>,
                   nobjects |-> nobj + 1, loaded |-> out.loaded]
             ELSE [raised |-> TRUE, _system |-> msys, nobjects |-> nobj,
                   loaded |-> out.loaded]

\* the globals after initialize_system() ran get_system(): system is assigned
\* unless get_system() raised
Initialized(sys, g) ==
    [system |-> IF g.raised THEN sys ELSE g._system,
     _system |-> g._system, nobjects |-> g.nobjects, loaded |-> g.loaded,
     attempted |-> TRUE, raised |-> g.raised]

\* the globals when no initialisation is attempted
NotAttempted(sys, msys, nobj) ==
    [system |-> sys, _system |-> msys, nobjects |-> nobj, loaded |-> <<>>,
     attempted |-> FALSE, raised |-> FALSE]

\* app.before_request(): initialize_system() if system is None and the path
\* starts with /api/
before_request(path, sys, msys, d, nobj) ==
    IF sys = None /\ StartsWithApi(path)
    THEN Initialized(sys, get_system_run(msys, d, nobj))
    ELSE NotAttempted(sys, msys, nobj)

\* api/index.py imported model
SYSTEM_AVAILABLE == TRUE

\* api/index.py's initialize_system()
index_initialize_system(sys, msys, d, nobj) ==
    IF sys = None /\ SYSTEM_AVAILABLE
    THEN Initialized(sys, get_system_run(msys, d, nobj))
    ELSE NotAttempted(sys, msys, nobj)

\* ------------------------------------------------ requests, one at a time
\* One request is followed from its arrival at a wrapper to its response.
\* The process has not served a /api/ request yet, or it has loaded its
\* artifacts; the artifact files are all there or one is missing.
KnownName == <<"a">>

\* the recommender answers the known user, the user "b" and the user of the
\* longest accepted name
HttpRecommender ==
    [user_index |-> {KnownName},
     recs |-> [u \in {KnownName, <<"b">>, Chars(Str(<<"b">>, MAX_USERNAME_CHARS - 1))} |->
                  IF u = KnownName THEN <<"p1", "p2", "p3", "p4", "p5", "p6">>
                  ELSE <<"p2", "p1">>]]

HttpReviews ==
    <<[name |-> "p1", reviews_text |-> Saw],
      [name |-> "p2", reviews_text |-> Aaa],
      [name |-> "p1", reviews_text |-> Aaa],
      [name |-> "p3", reviews_text |-> NaN],
      [name |-> "p4", reviews_text |-> Saw],
      [name |-> "p5", reviews_text |-> Aaa],
      [name |-> "p6", reviews_text |-> Saw]>>

HttpDisk(present) ==
    [dir \in Dirs |->
        IF dir = PICKLE_DIR
        THEN [f \in Files |->
                 IF f \notin present THEN Absent
                 ELSE CASE f = "user_based_cf.pkl" -> <<HttpRecommender>>
                        [] f = "master_reviews.pkl" -> <<HttpReviews>>
                        [] OTHER -> <<SampleContent(f)>>]
        ELSE EmptyDir]

\* the values the fields of a request's body are drawn from
Bodies ==
    [username :
         {NoKey, NoStr, Str(<<" ">>, 0), Str(<<" ", "a", " ">>, 0), Str(<<"b">>, 0),
          Str(<<"b">>, MAX_USERNAME_CHARS - 1), Str(<<"b">>, MAX_USERNAME_CHARS)},
     review_text :
         {NoKey, NoStr, Str(<<" ">>, 0), Str(<<" ", "s", "a", "w", " ">>, 0),
          Str(Was, 0), Str(<<"w">>, MAX_REVIEW_CHARS)},
     n_recommendations :
         {[kind |-> "absent", val |-> 0], [kind |-> "other", val |-> 0], IntVal(0),
          IntVal(1), IntVal(3), IntVal(MAX_N), IntVal(MAX_N + 1)}]
Paths ==
    {"/api/predict", "/api/recommend", "/api/combined", "/api/health", "/api/status",
     "/health", "/API/PREDICT"}

NotStarted(d) ==
    /\ disk = d
    /\ _system = None
    /\ system = None
    /\ pc = [t \in Threads |-> "idle"]
    /\ local = [t \in Threads |-> IdleLocal]
    /\ used = [t \in Threads |-> 0]
    /\ nobjects = 0
    /\ loads = 0
    /\ last = 0
    /\ call = NoCall
    /\ result = None
    /\ failed = FALSE

InitHttp ==
    /\ nltk = NoNltk
    /\ \/ Loaded(HttpDisk(Files))
       \/ NotStarted(HttpDisk(Files))
       \/ NotStarted(HttpDisk(Files \ {"master_reviews.pkl"}))

\* what a request leaves in the process's state, after the initialisation
\* st and the response reply
Served(request, st, reply) ==
    /\ call' = request
    /\ result' = <<reply>>
    /\ last' = reply.status
    /\ system' = st.system
    /\ _system' = st._system
    /\ nobjects' = st.nobjects
    /\ loads' = loads + Len(st.loaded)
    /\ failed' = (failed \/ st.raised)
    /\ used' = IF reply.core = <<>> THEN used ELSE [used EXCEPT ![1] = st.system[1].id]
    /\ UNCHANGED <<nltk, disk, pc, local>>

\* a request to the Flask app: before_request(), then the dispatch
FlaskRequest(method, path, data, now, fault) ==
    /\ result = None
    /\ LET st == before_request(path, system, _system, disk, nobjects)
       IN  Served([op |-> "request", wrapper |-> "flask", method |-> method,
                   path |-> path, data |-> data, now |-> now, fault |-> fault,
                   attempted |-> st.attempted],
                  st, flask_dispatch(method, path, data, st.system, nltk, now, fault))

\* an invocation of the serverless handler(event, context)
ServerlessRequest(method, path, data, now, fault) ==
    /\ result = None
    /\ LET st == index_initialize_system(system, _system, disk, nobjects)
       IN  Served([op |-> "request", wrapper |-> "serverless", method |-> method,
                   path |-> path, data |-> data, now |-> now, fault |-> fault,
                   attempted |-> st.attempted],
                  st, handler_route(method, path, data, st.system, nltk, now, fault))

\* One request per behaviour: none has been answered yet.  The library call
\* that raises during the request is none (0) or the k-th.
NextHttp ==
    \/ /\ result = None
       /\ \E method \in {"GET", "POST"}, path \in Paths, data \in Bodies,
             now \in {"2026-02-28T12:34:56"}, fault \in {0, 1, 2, 3, 5} :
                 FlaskRequest(method, path, data, now, fault)
    \/ /\ result = None
       /\ \E method \in {"GET", "POST"}, path \in Paths, data \in Bodies,
             now \in {"2026-02-28T12:34:56"}, fault \in {0, 1, 2, 3, 5} :
                 ServerlessRequest(method, path, data, now, fault)

SpecHttp == InitHttp /\ [][NextHttp]_vars

\* ------------------------------------------- construction, call by call
\* SentimentRecommenderSystem(pickle_dir) is constructed directly, on a file
\* system whose two directories each hold some of the four files; the files
\* of the other directory hold other artifacts than the module directory's.
OtherContent(fname) ==
    CASE fname = "tfidf_vectorizer.pkl" -> {Saw}
      [] fname = "sentiment_model.pkl" ->
             [intercept |-> 1, coef |-> [t \in {Saw} |-> 1]]
      [] fname = "user_based_cf.pkl" ->
             [user_index |-> Users, recs |-> [u \in Users |-> <<"p3">>]]
      [] fname = "master_reviews.pkl" -> <<[name |-> "p3", reviews_text |-> Saw]>>

StoreDisk(here, there) ==
    [dir \in Dirs |->
        [f \in Files |->
            IF dir = PICKLE_DIR
            THEN (IF f \in here THEN <<SampleContent(f)>> ELSE Absent)
            ELSE (IF f \in there THEN <<OtherContent(f)>> ELSE Absent)]]

InitStore ==
    /\ nltk = NoNltk
    /\ \E here \in SUBSET Files, there \in SUBSET Files :
           NotStarted(StoreDisk(here, there))

\* SentimentRecommenderSystem(pickle_dir): __init__ runs _load_artifacts()
ConstructWith(pickle_dir) ==
    /\ result = None
    /\ LET out == _load_artifacts(disk, pickle_dir)
       IN  /\ call' = [op |-> "SentimentRecommenderSystem", pickle_dir |-> pickle_dir]
           /\ result' = <<[ret |-> out]>>
           /\ nobjects' = IF out.ok THEN nobjects + 1 ELSE nobjects
           /\ loads' = loads + Len(out.loaded)
           /\ failed' = (failed \/ ~out.ok)
    /\ UNCHANGED <<nltk, disk, _system, system, pc, local, used, last>>

NextStore == \E pickle_dir \in Dirs : ConstructWith(pickle_dir)

SpecStore == InitStore /\ [][NextStore]_vars

\* ------------------------------------------------------------------ claims
Returned == result # None
Ret == result[1].ret
Self == system[1]

IsCall(op) == Returned /\ call.op = op

\* the candidate list the recommender gave the latest recommend_products call
CallCands == recommend(Self.recommender, call.username, CF_CANDIDATES)

\* C1: recommend_products returns at most min(n, k) recommendations for a
\* candidate list of size k, in descending order of positive_ratio, and
\* recommendations of equal positive_ratio stand in the order their products
\* have in the candidate list.
C1_RankedTopN ==
    IsCall("recommend_products") =>
        LET recs == Ret.recommendations
            cands == CallCands
        IN  /\ Len(recs) <= Min(call.n, Len(cands))
            /\ \A i \in 1..(Len(recs) - 1) :
                   ~RatLess(recs[i].sentiment_score, recs[i + 1].sentiment_score)
            /\ \E pos \in [1..Len(recs) -> 1..Len(cands)] :
                   /\ \A i \in 1..Len(recs) : cands[pos[i]] = recs[i].product
                   /\ \A i, j \in 1..Len(recs) :
                          i < j =>
                              /\ pos[i] # pos[j]
                              /\ RatEq(recs[i].sentiment_score, recs[j].sentiment_score)
                                     => pos[i] < pos[j]

\* two different products of equal ratio were returned, and the candidate
\* list was longer than n
C1_Witness ==
    /\ IsCall("recommend_products")
    /\ Len(Ret.recommendations) >= 2
    /\ Ret.recommendations[1].product # Ret.recommendations[2].product
    /\ RatEq(Ret.recommendations[1].sentiment_score,
             Ret.recommendations[2].sentiment_score)
    /\ Len(CallCands) > call.n

\* C2 as stated: for every input, probability and confidence lie in [0, 1]
\* and confidence = max(probability, 1 - probability).
C2_ConfidenceIsMaxForAllInputs ==
    IsCall("predict_sentiment") =>
        /\ Ret.probability \in 0..One
        /\ Ret.confidence \in 0..One
        /\ Ret.confidence = Max(Ret.probability, One - Ret.probability)

\* C2 amended: for every input, probability and confidence lie in [0, 1];
\* confidence = max(probability, 1 - probability) when the text normalizes
\* to a non-empty string, and probability = 0.5 with confidence = 0.0 when
\* it normalizes to the empty string.
C2_ConfidenceIsMaxWhenClassified ==
    IsCall("predict_sentiment") =>
        /\ Ret.probability \in 0..One
        /\ Ret.confidence \in 0..One
        /\ IF preprocess_text(call.review_text, nltk) # <<>>
           THEN Ret.confidence = Max(Ret.probability, One - Ret.probability)
           ELSE Ret.probability = Half /\ Ret.confidence = 0

\* a text was classified Negative, so its confidence is 1 - probability
C2_Witness ==
    /\ IsCall("predict_sentiment")
    /\ Ret.sentiment = "Negative"
    /\ Ret.probability < Half
    /\ Ret.confidence = One - Ret.probability

\* the latest call's text is no string, empty or all whitespace
BlankInput == call.review_text = NaN \/ \A i \in 1..Len(call.review_text) : IsSpace(call.review_text[i])

\* C3: for a text that is no string, empty or all whitespace, preprocess_text
\* returns the empty string and predict_sentiment returns sentiment Unknown,
\* probability 0.5, confidence 0.0 and an error message, without calling the
\* vectorizer or the classifier.
C3_BlankInputIsUnknown ==
    /\ (IsCall("preprocess_text") /\ BlankInput) => Ret = <<>>
    /\ (IsCall("predict_sentiment") /\ BlankInput) =>
           /\ Ret.sentiment = "Unknown"
           /\ Ret.probability = Half
           /\ Ret.confidence = 0
           /\ "error" \in DOMAIN Ret
           /\ result[1].calls = <<>>

\* predict_sentiment has answered a text of two blanks
C3_Witness ==
    /\ IsCall("predict_sentiment")
    /\ call.review_text = <<" ", " ">>
    /\ Ret.sentiment = "Unknown"

\* C4: in every result of recommend_products, the early one included,
\* cold_start is true exactly when the username is not in the recommender's
\* user index, whatever the review table, the candidate list and n are.
C4_ColdStartIffUnknownUser ==
    IsCall("recommend_products") =>
        (Ret.cold_start <=> call.username \notin Self.recommender.user_index)

\* a known user got the early result, and so is not cold-start
C4_Witness ==
    /\ IsCall("recommend_products")
    /\ CallCands = <<>>
    /\ Ret.explanation = "No recommendations available"
    /\ call.username \in Self.recommender.user_index
    /\ ~Ret.cold_start

\* the rows of the review table that are about product
ProductRows(product) ==
    {i \in 1..Len(Self.reviews_df) : Self.reviews_df[i].name = product}

RECURSIVE SumProbabilities(_)
SumProbabilities(rows) ==
    IF rows = {} THEN 0
    ELSE LET i == CHOOSE r \in rows : TRUE
         IN  predict_sentiment(Self, Self.reviews_df[i].reviews_text, nltk).probability
                 + SumProbabilities(rows \ {i})

C6_ExplanationByCandidatesAndColdStart ==
    IsCall("recommend_products") =>
        LET cold == call.username \notin Self.recommender.user_index
        IN  IF CallCands = <<>>
            THEN Ret = [recommendations |-> <<>>,
                        explanation |-> "No recommendations available",
                        cold_start |-> cold]
            ELSE /\ cold => Ret.explanation = "Recommended based on popularity"
                 /\ ~cold => Ret.explanation =
                        "Recommended based on collaborative filtering + sentiment analysis"

\* a cold-start user had candidates, none of them with reviews: nothing is
\* recommended, and the explanation still names popularity
C6_Witness ==
    /\ IsCall("recommend_products")
    /\ CallCands # <<>>
    /\ Ret.recommendations = <<>>
    /\ Ret.cold_start
    /\ Ret.explanation = "Recommended based on popularity"

\* the sentiment fields and the recommendation fields of a combined result
SentimentPart(r) ==
    <<r.sentiment, r.sentiment_probability, r.sentiment_confidence>>
RecommendationPart(r) ==
    <<r.recommendations, r.recommendation_explanation, r.is_new_user>>

\* C7: the result of predict_and_recommend(username, review_text, n) has a
\* sentiment and a recommendations key, the latter a list; its sentiment
\* fields are those predict_sentiment(review_text) returns and are the same
\* for every username and n; its recommendation fields are those
\* recommend_products(username, n) returns and are the same for every
\* review_text; each of the two is called exactly once.
C7_PureComposition ==
    IsCall("predict_and_recommend") =>
        LET alone_s == predict_sentiment(Self, call.review_text, nltk)
            alone_r == recommend_products(Self, call.username, call.n, nltk)
            now == Ret.timestamp
        IN  /\ {"sentiment", "recommendations"} \subseteq DOMAIN Ret
            /\ Ret.sentiment # None
            /\ Ret.recommendations # None
            /\ SentimentPart(Ret) =
                   << <<alone_s.sentiment>>, <<alone_s.probability>>,
                      <<alone_s.confidence>> >>
            /\ RecommendationPart(Ret) =
                   << <<alone_r.recommendations>>, <<alone_r.explanation>>,
                      <<alone_r.cold_start>> >>
            /\ \A u \in Users, n \in 1..MaxN :
                   SentimentPart(predict_and_recommend(Self, u, call.review_text, n,
                                                       nltk, now))
                       = SentimentPart(Ret)
            /\ \A t \in CoreTexts :
                   RecommendationPart(predict_and_recommend(Self, call.username, t,
                                                            call.n, nltk, now))
                       = RecommendationPart(Ret)
            /\ result[1].calls =
                   << <<"predict_sentiment", call.review_text>>,
                      <<"recommend_products", call.username, call.n>> >>

\* both sub-pipelines found nothing: the sentiment is Unknown and the
\* recommendations are the empty list, although the recommender had candidates
C7_Witness ==
    /\ IsCall("predict_and_recommend")
    /\ Ret.sentiment = <<"Unknown">>
    /\ Ret.recommendations = << <<>> >>
    /\ CallCands # <<>>

\* the required files PICKLE_DIR lacks
MissingNow == {f \in Files : ~exists(disk, PICKLE_DIR, f)}

\* C8: when a required file is absent, the construction fails with an error
\* that lists every missing file, deserializes nothing and caches no handle.
C8_MissingArtifactError ==
    [][\A t \in Threads :
           (pc[t] = "construct" /\ pc'[t] # "construct" /\ MissingNow # {}) =>
               /\ local'[t].exc # None
               /\ local'[t].exc[1].type = "FileNotFoundError"
               /\ "missing" \in DOMAIN local'[t].exc[1]
               /\ {local'[t].exc[1].missing[i] :
                      i \in 1..Len(local'[t].exc[1].missing)} = MissingNow
               /\ local'[t].loaded = <<>>
               /\ loads' = loads
               /\ local'[t].obj = None
               /\ nobjects' = nobjects
               /\ _system' = _system
               /\ system' = system]_vars

\* a construction has failed on two or more missing files, nothing was
\* deserialized and no handle is cached
C8_Witness ==
    \E t \in Threads :
        /\ local[t].exc # None
        /\ Len(local[t].exc[1].missing) >= 2
        /\ loads = 0
        /\ _system = None
        /\ system = None

\* C9: once a get_system call has returned an instance, the cached instance
\* is never replaced.
C9_BundleNeverReplaced == [][system # None => _system' = _system]_vars

\* C10: the system is constructed at most once in a process, and all
\* threads' views use the same instance.
C10_ConstructedAtMostOnce ==
    /\ nobjects <= 1
    /\ \A t1, t2 \in Threads :
           (used[t1] # 0 /\ used[t2] # 0) => used[t1] = used[t2]

\* C11: a failed artifact load is never retried: once a construction attempt
\* has raised, no later get_system() call goes on to construct an instance
\* again, and no instance is constructed afterwards (the process stays unable
\* to serve).
C11_NoRetryAfterFailedLoad ==
    [][failed =>
         /\ \A t \in Threads : ~(pc[t] = "get_system" /\ pc'[t] = "construct")
         /\ nobjects' = nobjects]_vars

\* ------------------------------------------------ claims on the boundary
\* a request has been answered; its response
Answered == result # None /\ call.op = "request"
Resp == result[1]

\* the route the request was for (the serverless handler lowers the path)
RoutedPath == IF call.wrapper = "serverless" THEN PathLower(call.path) ELSE call.path

\* the request went to the view of path
ForView(path) ==
    /\ Answered
    /\ RoutedPath = path
    /\ call.method = (IF path = "/api/health" THEN "GET" ELSE "POST")

\* a str within a limit: not empty once stripped, at most max characters
WithinLimit(x, max) == PyLen(PyStrip(x)) \in 1..max
\* a field the body gives as a str, or leaves out
StrOrAbsent(data, key) == data[key].kind \in {"str", "absent"}

\* the request's body breaks a limit of the view it went to (every field the
\* view reads being a str or absent)
BreaksLimits ==
    \/ /\ ForView("/api/predict")
       /\ StrOrAbsent(call.data, "review_text")
       /\ ~WithinLimit(GetStr(call.data, "review_text"), MAX_REVIEW_CHARS)
    \/ /\ ForView("/api/recommend")
       /\ StrOrAbsent(call.data, "username")
       /\ ~WithinLimit(GetStr(call.data, "username"), MAX_USERNAME_CHARS)
    \/ /\ ForView("/api/combined")
       /\ StrOrAbsent(call.data, "username")
       /\ StrOrAbsent(call.data, "review_text")
       /\ \/ ~WithinLimit(GetStr(call.data, "username"), MAX_USERNAME_CHARS)
          \/ ~WithinLimit(GetStr(call.data, "review_text"), MAX_REVIEW_CHARS)

\* the arguments of a call on the core are validated ones
ValidatedCall(c) ==
    /\ c.review_text # None =>
           /\ WithinLimit(c.review_text[1], MAX_REVIEW_CHARS)
           /\ PyStrip(c.review_text[1]) = c.review_text[1]
    /\ c.username # None =>
           /\ WithinLimit(c.username[1], MAX_USERNAME_CHARS)
           /\ PyStrip(c.username[1]) = c.username[1]
    /\ c.n # None => c.n[1] \in MIN_N..MAX_N

\* C12: the boundary calls the core only with validated arguments (a review
\* text not empty once stripped and of at most 5000 characters, a username
\* not empty once stripped and of at most 50 characters, a count in 1..20),
\* and a request that breaks the text or username limits is answered 400 with
\* success false and no call on the core.
C12_CoreCalledWithValidatedArguments ==
    Answered =>
        /\ \A i \in 1..Len(Resp.core) : ValidatedCall(Resp.core[i])
        /\ BreaksLimits =>
               /\ Resp.status = 400
               /\ Resp.body.success = FALSE
               /\ Resp.core = <<>>

\* the count the request's body asks for, when it is an int
AskedCount == GetCount(call.data).val

\* C13: the boundary clamps the requested count to [1, 20]: a recommendation
\* or combined request that reaches the engine with an int count passes
\* min(max(count, 1), 20) on.
C13_CountClamped ==
    /\ (ForView("/api/recommend") \/ ForView("/api/combined"))
    /\ Resp.core # <<>>
    /\ GetCount(call.data).kind = "int"
    => Resp.core[1].n = <<Min(Max(AskedCount, MIN_N), MAX_N)>>

\* C14: the normalizer is idempotent: for every text t, under every stopword
\* set and with or without lemmatization, normalizing preprocess_text(t)
\* again gives preprocess_text(t).
C14_NormalizerIdempotent ==
    IsCall("preprocess_text") => preprocess_text(Ret, nltk) = Ret

\* the paths test_endpoints.py and verify_app.py request with GET
TestedPaths == {"/health", "/api/status"}

\* C15: GET /health and GET /api/status on the Flask app reach a registered
\* view: they are not answered by the 404 handler ('Endpoint not found').
C15_TestedEndpointsRouted ==
    /\ Answered
    /\ call.wrapper = "flask"
    /\ call.method = "GET"
    /\ call.path \in TestedPaths
    => /\ call.path \in DOMAIN FlaskRoutes
       /\ Resp.status # 404

\* the artifacts the files of directory dir hold
ContentOf(dir) ==
    [tfidf_vectorizer |-> disk[dir]["tfidf_vectorizer.pkl"][1],
     sentiment_model |-> disk[dir]["sentiment_model.pkl"][1],
     recommender |-> disk[dir]["user_based_cf.pkl"][1],
     reviews_df |-> disk[dir]["master_reviews.pkl"][1]]

\* C16: for any pickle_dir given to the constructor, construction succeeds
\* exactly when the four files exist in pickle_dir, and the bundle loaded is
\* the content of pickle_dir's files, whatever the module's own directory
\* holds.
C16_LoadedFromConfiguredDirectory ==
    IsCall("SentimentRecommenderSystem") =>
        /\ Ret.ok <=> \A f \in Files : exists(disk, call.pickle_dir, f)
        /\ Ret.ok => Ret.attrs = ContentOf(call.pickle_dir)

\* the library calls the core call c makes when none of them raises
LibraryCalls(c) ==
    CASE c.op = "predict_sentiment" ->
             predict_sentiment_run(Self, Chars(c.review_text[1]), nltk).calls
      [] c.op = "recommend_products" ->
             recommend_products_calls(Self, Chars(c.username[1]), nltk)
      [] c.op = "predict_and_recommend" ->
             predict_sentiment_run(Self, Chars(c.review_text[1]), nltk).calls
                 \o recommend_products_calls(Self, Chars(c.username[1]), nltk)

\* the vectorizer, the classifier or the recommender raised during the request
LibraryRaised ==
    /\ Answered
    /\ Resp.core # <<>>
    /\ call.fault \in 1..Len(LibraryCalls(Resp.core[1]))

\* C17: when the vectorizer, the classifier or the recommender raises during
\* a request (also while a review is scored in the middle of the loop), the
\* core was called once and not again, and the response is an error: status
\* 500 with success false and an error field, and no recommendations or
\* sentiment in it.  (The health views, whose bodies have no success field,
\* answer 500 with system_ready false.)
C17_InferenceErrorIs500 ==
    LibraryRaised =>
        /\ Resp.status = 500
        /\ Len(Resp.core) = 1
        /\ "recommendations" \notin DOMAIN Resp.body
        /\ "sentiment" \notin DOMAIN Resp.body
        /\ IF ForView("/api/health")
           THEN Resp.body.system_ready = FALSE /\ Resp.body.status = "error"
           ELSE Resp.body.success = FALSE /\ "error" \in DOMAIN Resp.body

\* a recommendation request during which the vectorizer raised on the second
\* review the loop scored was answered 500
C17_Witness ==
    /\ ForView("/api/recommend")
    /\ LibraryRaised
    /\ call.fault = 5
    /\ LibraryCalls(Resp.core[1])[5] = "transform"
    /\ Resp.status = 500
    /\ Resp.body.success = FALSE

\* the success flag of a response: None when the body has none
SuccessFlag(reply) ==
    IF "success" \in DOMAIN reply.body THEN <<reply.body.success>> ELSE None

\* the response of the other wrapper to the same request in the same system
\* state (initialised, or failed to initialise)
OtherWrapperReply ==
    IF call.wrapper = "flask"
    THEN handler_route(call.method, call.path, call.data, system, nltk, call.now,
                       call.fault)
    ELSE flask_dispatch(call.method, call.path, call.data, system, nltk, call.now,
                        call.fault)

\* the four paths both wrappers serve
SharedPaths == {"/api/predict", "/api/recommend", "/api/combined", "/api/health"}

\* C18: for the same request (method, path among /api/predict,
\* /api/recommend, /api/combined and /api/health, JSON body) in the same
\* system state, the Flask app and the serverless handler answer with the
\* same status code and the same success flag.
C18_WrappersEquivalent ==
    Answered /\ call.path \in SharedPaths =>
        /\ Resp.status = OtherWrapperReply.status
        /\ SuccessFlag(Resp) = SuccessFlag(OtherWrapperReply)

\* the response is one of /api/predict, /api/recommend or /api/combined
InferenceResponse ==
    Answered /\ RoutedPath \in {"/api/predict", "/api/recommend", "/api/combined"}

HasError == "error" \in DOMAIN Resp.body

\* the request was a prediction whose accepted text normalizes to ''
EmptyAfterPreprocessing ==
    /\ ForView("/api/predict")
    /\ Resp.core # <<>>
    /\ preprocess_text(Chars(Resp.core[1].review_text[1]), nltk) = <<>>

\* C19 as stated: in every response of /api/predict, /api/recommend and
\* /api/combined an 'error' field is present if and only if success is false
\* (the status code is not 200); no response with success true carries one.
C19_ErrorIffNotSuccess ==
    InferenceResponse =>
        /\ Resp.body.success = FALSE <=> Resp.status # 200
        /\ HasError <=> Resp.body.success = FALSE

\* C19 amended: success is false if and only if the status code is not 200;
\* every response with success false carries an 'error' field; a response
\* with success true carries one exactly when it answers a prediction whose
\* accepted review text normalizes to the empty string.
C19_ErrorIffNotSuccessOrUnknown ==
    InferenceResponse =>
        /\ Resp.body.success = FALSE <=> Resp.status # 200
        /\ Resp.body.success = FALSE => HasError
        /\ Resp.body.success = TRUE => (HasError <=> EmptyAfterPreprocessing)

\* a prediction for a text of stopwords only was answered 200 with success
\* true, sentiment Unknown and an error field
C19_Witness ==
    /\ EmptyAfterPreprocessing
    /\ Resp.status = 200
    /\ Resp.body.success = TRUE
    /\ Resp.body.sentiment = "Unknown"
    /\ HasError

====
